---- MODULE Spec2Model ----
(***************************************************************************)
(* Live client (Live.connect, Session) of the js-genai SDK, and the        *)
(* connection handshake it performs over a WebSocket.                      *)
(*                                                                         *)
(* JavaScript values are encoded so that every field keeps one TLA+ type:  *)
(*   - a string is a sequence of one-character strings;                    *)
(*   - scalars that may be undefined/null are the strings "undefined",     *)
(*     "null", "true", "false", or an opaque token;                        *)
(*   - an object is a function from its own keys to values: a key that is  *)
(*     absent is not in the DOMAIN, a key set to undefined is in the       *)
(*     DOMAIN with value "undefined".                                      *)
(***************************************************************************)
EXTENDS Integers, Sequences, FiniteSets, TLC

\* ------------------------------------------------------------------ bounds
MaxMsgs == 2         \* Spec: inbound messages of the connection
MaxSends == 2        \* Spec: frames the send methods hand to the connection
MaxCloses == 2       \* Spec: Session.close calls
MaxInbound == 3      \* SpecInbound: inbound messages of the connection
MaxFrames == 1       \* SpecSend: frames the send methods hand to the connection
MaxResponses == 2    \* SpecSend: length of a functionResponses array
MaxTools == 2        \* SpecHandshake: length of config.tools
MaxCalls == 2        \* SpecSessions: Live.connect calls

\* ----------------------------------------------------------------- strings
StartsWith(s, p) ==
    /\ Len(s) >= Len(p)
    /\ SubSeq(s, 1, Len(p)) = p

auth_tokens_ == <<"a","u","t","h","_","t","o","k","e","n","s","/">>
publishers_ == <<"p","u","b","l","i","s","h","e","r","s","/">>
projects_ == <<"p","r","o","j","e","c","t","s","/">>
locations_ == <<"/","l","o","c","a","t","i","o","n","s","/">>

\* ------------------------------------------------------ client (ApiClient)
websocketBaseUrl == "wss://host"
apiVersion == "v1beta"
project == <<"p">>
location == <<"l">>

NoKey == [def |-> FALSE, s |-> <<>>]
Key(s) == [def |-> TRUE, s |-> s]

\* JavaScript truthiness of an optional string.
Truthy(k) == k.def /\ k.s # <<>>

\* ----------------------------------------------------------- JS values
\* Values of fields that hold more than one JavaScript type are tagged with
\* their kind.
Undefined == [kind |-> "undefined"]
Null == [kind |-> "null"]
Bool(b) == [kind |-> "boolean", v |-> b]
Num == [kind |-> "number"]
StringV(s) == [kind |-> "string", v |-> s]
Obj(keys) == [kind |-> "object", keys |-> keys]
Arr(items) == [kind |-> "array", items |-> items]

\* v == null (null or undefined).
IsNullish(v) == v.kind \in {"undefined", "null"}

\* The empty object {}.
EmptyObj == [k \in {} |-> Undefined]

\* Property read obj.key of an object of plain strings: undefined when the
\* key is absent.
Get(obj, key) == IF key \in DOMAIN obj THEN obj[key] ELSE "undefined"

\* Property read obj.key of an object of tagged values.
GetV(obj, key) == IF key \in DOMAIN obj THEN obj[key] ELSE Undefined

\* Property write obj.key = val.
SetKey(obj, key, val) ==
    [k \in (DOMAIN obj) \cup {key} |-> IF k = key THEN val ELSE obj[k]]

\* Object spread {...a, ...b}: own keys of both, b's value wins, also when
\* b's value is undefined.
Spread(a, b) ==
    [k \in (DOMAIN a) \cup (DOMAIN b) |-> IF k \in DOMAIN b THEN b[k] ELSE a[k]]

\* JSON.stringify of an object of tagged values, read back as the object
\* the JSON text denotes: a key whose value is undefined is left out.
JSONstringify(obj) ==
    LET kept == {k \in DOMAIN obj : obj[k].kind # "undefined"}
    IN  [k \in kept |-> obj[k]]

\* --------------------------------------------------- Live.connect: the URL
\* Mutant of EphemeralToken: the prefix is tested without its slash.
EphemeralToken_NoSlash(key) == StartsWith(key.s, SubSeq(auth_tokens_, 1, 11))

\* apiKey?.startsWith('auth_tokens/')
EphemeralToken(key) == StartsWith(key.s, auth_tokens_)

Method(key) ==
    IF EphemeralToken(key) THEN "BidiGenerateContentConstrained"
    ELSE "BidiGenerateContent"

KeyName(key) == IF EphemeralToken(key) THEN "access_token" ELSE "key"

\* The URL as the pieces of its template literal, the key character by
\* character.
ConnectUrl(vx, key) ==
    IF vx
    THEN <<websocketBaseUrl, "/ws/google.cloud.aiplatform.", apiVersion,
           ".LlmBidiService/BidiGenerateContent">>
    ELSE IF Truthy(key)
         THEN <<websocketBaseUrl, "/ws/google.ai.generativelanguage.",
                apiVersion, ".GenerativeService.", Method(key), "?",
                KeyName(key), "=">> \o key.s
         ELSE <<websocketBaseUrl>>

\* ------------------------------------- Live.connect: model and config
\* Mutant of QualifiedModel: the name is qualified on both variants.
QualifiedModel_AnyVariant(vx, tm) ==
    IF StartsWith(tm, publishers_)
    THEN projects_ \o project \o locations_ \o location \o <<"/">> \o tm
    ELSE tm

\* transformedModel after the qualification step; tm is t.tModel's result.
QualifiedModel(vx, tm) ==
    IF vx /\ StartsWith(tm, publishers_)
    THEN projects_ \o project \o locations_ \o location \o <<"/">> \o tm
    ELSE tm

\* params.config?.responseModalities === undefined
NoResponseModalities(params) ==
    IF "config" \in DOMAIN params
    THEN Get(params["config"], "responseModalities") = "undefined"
    ELSE TRUE

\* Mutant of WithDefaultModalities: the default is injected on both variants.
WithDefaultModalities_AnyVariant(vx, params) ==
    IF NoResponseModalities(params)
    THEN IF ~("config" \in DOMAIN params)
         THEN SetKey(params, "config", [responseModalities |-> "[AUDIO]"])
         ELSE SetKey(params, "config",
                     SetKey(params["config"], "responseModalities", "[AUDIO]"))
    ELSE params

\* params after the default-modality step (params.config is assigned).
WithDefaultModalities(vx, params) ==
    IF vx /\ NoResponseModalities(params)
    THEN IF ~("config" \in DOMAIN params)
         THEN SetKey(params, "config", [responseModalities |-> "[AUDIO]"])
         ELSE SetKey(params, "config",
                     SetKey(params["config"], "responseModalities", "[AUDIO]"))
    ELSE params

\* ------------------------------------------------ Session: clientContent
\* t.tContents: the content list of a turns value, or a failure: a string
\* is one user turn, a Content object is itself, a non-empty list is its
\* items; an empty list and a value of another type are not representable.
tContents(turns) ==
    CASE turns.kind = "string" -> [threw |-> FALSE, v |-> <<Obj({"role", "parts"})>>]
      [] turns.kind = "object" -> [threw |-> FALSE, v |-> <<turns>>]
      [] turns.kind = "array" /\ turns.items # <<>> ->
             [threw |-> FALSE, v |-> turns.items]
      [] OTHER -> [threw |-> TRUE, v |-> <<>>]

contentToVertex(item) == [enc |-> "vertex", item |-> item]
contentToMldev(item) == [enc |-> "mldev", item |-> item]

Returned(msg) == [threw |-> FALSE, err |-> "", msg |-> msg]
Thrown(err) == [threw |-> TRUE, err |-> err, msg |-> EmptyObj]

defaultLiveSendClientContentParamerters == [turnComplete |-> Bool(TRUE)]

\* Mutant of tLiveClientContent: without turns, the message still carries the
\* empty contents list as turns.
tLiveClientContent_AlwaysTurns(vx, params) ==
    LET turns == GetV(params, "turns")
        c == IF IsNullish(turns) THEN [threw |-> FALSE, v |-> <<>>]
             ELSE tContents(turns)
    IN  IF c.threw
        THEN Thrown("Failed to parse client content \"turns\"")
        ELSE Returned(
               [k \in {"turns", "turnComplete"} |->
                  IF k = "turns"
                  THEN Arr([i \in DOMAIN c.v |->
                              IF vx THEN contentToVertex(c.v[i])
                              ELSE contentToMldev(c.v[i])])
                  ELSE GetV(params, "turnComplete")])

\* The inner object of the clientContent message, before serialisation.
tLiveClientContent(vx, params) ==
    LET turns == GetV(params, "turns")
    IN  IF ~IsNullish(turns)
        THEN LET c == tContents(turns)
             IN  IF c.threw
                 THEN Thrown("Failed to parse client content \"turns\"")
                 ELSE Returned(
                        [k \in {"turns", "turnComplete"} |->
                           IF k = "turns"
                           THEN Arr([i \in DOMAIN c.v |->
                                       IF vx THEN contentToVertex(c.v[i])
                                       ELSE contentToMldev(c.v[i])])
                           ELSE GetV(params, "turnComplete")])
        ELSE Returned([turnComplete |-> GetV(params, "turnComplete")])

\* sendClientContent up to conn.send: args.given is FALSE for a call with no
\* argument (the spread of undefined adds no key).
sendClientContentResult(vx, args) ==
    LET params == Spread(defaultLiveSendClientContentParamerters,
                         IF args.given THEN args.obj ELSE EmptyObj)
        r == tLiveClientContent(vx, params)
    IN  IF r.threw THEN r
        ELSE Returned([clientContent |-> JSONstringify(r.msg)])

\* ------------------------------------------------- Session: toolResponse
FUNCTION_RESPONSE_REQUIRES_ID ==
    "FunctionResponse request must have an id field from the response of a ToolCall.FunctionalCalls in Google AI."

\* Mutant of FirstBad: only the first element is checked.
FirstBad_FirstOnly(vx, frs, i) ==
    IF i > Len(frs) THEN 0
    ELSE IF \/ frs[1].kind # "object"
            \/ ~("name" \in frs[1].keys)
            \/ ~("response" \in frs[1].keys)
            \/ (~vx /\ ~("id" \in frs[1].keys))
         THEN 1
         ELSE 0

\* The first index of frs that fails the element checks, 0 when none does.
RECURSIVE FirstBad(_, _, _)
FirstBad(vx, frs, i) ==
    IF i > Len(frs) THEN 0
    ELSE IF \/ frs[i].kind # "object"
            \/ ~("name" \in frs[i].keys)
            \/ ~("response" \in frs[i].keys)
            \/ (~vx /\ ~("id" \in frs[i].keys))
         THEN i
         ELSE FirstBad(vx, frs, i + 1)

\* Mutant of tLiveClienttToolResponse: only the first response is put in
\* the message.
tLiveClienttToolResponse_FirstOnly(vx, fr) ==
    IF IsNullish(fr) THEN Thrown("functionResponses is required.")
    ELSE LET functionResponses == IF fr.kind # "array" THEN <<fr>> ELSE fr.items
             b == FirstBad(vx, functionResponses, 1)
         IN  IF Len(functionResponses) = 0
             THEN Thrown("functionResponses is required.")
             ELSE IF b = 0
             THEN Returned([toolResponse |->
                              [functionResponses |-> <<functionResponses[1]>>]])
             ELSE IF \/ functionResponses[b].kind # "object"
                     \/ ~("name" \in functionResponses[b].keys)
                     \/ ~("response" \in functionResponses[b].keys)
             THEN Thrown("Could not parse function response")
             ELSE Thrown(FUNCTION_RESPONSE_REQUIRES_ID)

\* Mutant of tLiveClienttToolResponse: the check for an empty array is
\* missing.
tLiveClienttToolResponse_NoEmptyCheck(vx, fr) ==
    IF IsNullish(fr) THEN Thrown("functionResponses is required.")
    ELSE LET functionResponses == IF fr.kind # "array" THEN <<fr>> ELSE fr.items
             b == FirstBad(vx, functionResponses, 1)
         IN  IF b = 0
             THEN Returned([toolResponse |->
                              [functionResponses |-> functionResponses]])
             ELSE IF \/ functionResponses[b].kind # "object"
                     \/ ~("name" \in functionResponses[b].keys)
                     \/ ~("response" \in functionResponses[b].keys)
             THEN Thrown("Could not parse function response")
             ELSE Thrown(FUNCTION_RESPONSE_REQUIRES_ID)

tLiveClienttToolResponse(vx, fr) ==
    IF IsNullish(fr) THEN Thrown("functionResponses is required.")
    ELSE LET functionResponses == IF fr.kind # "array" THEN <<fr>> ELSE fr.items
             b == FirstBad(vx, functionResponses, 1)
         IN  IF Len(functionResponses) = 0
             THEN Thrown("functionResponses is required.")
             ELSE IF b = 0
             THEN Returned([toolResponse |->
                              [functionResponses |-> functionResponses]])
             ELSE IF \/ functionResponses[b].kind # "object"
                     \/ ~("name" \in functionResponses[b].keys)
                     \/ ~("response" \in functionResponses[b].keys)
             THEN Thrown("Could not parse function response")
             ELSE Thrown(FUNCTION_RESPONSE_REQUIRES_ID)

\* sendToolResponse up to conn.send.
sendToolResponseResult(vx, fr) ==
    IF IsNullish(fr) THEN Thrown("Tool response parameters are required.")
    ELSE tLiveClienttToolResponse(vx, fr)

\* ------------------------------------------------ Session: realtimeInput
\* converters.liveSendRealtimeInputParametersTo{Vertex,Mldev}: the encoded
\* input, or a failure for an input the converter rejects.
liveSendRealtimeInputParameters(vx, params) ==
    IF params = "unsupported" THEN Thrown("parameter is not supported")
    ELSE Returned([enc |-> IF vx THEN "vertex" ELSE "mldev", input |-> params])

sendRealtimeInputResult(vx, params) ==
    LET r == liveSendRealtimeInputParameters(vx, params)
    IN  IF r.threw THEN r ELSE Returned([realtimeInput |-> r.msg])

\* --------------------------------------------------- Live.connect: tools
\* A tool is an object of plain strings. A static tool holds its
\* declarations; a callable tool holds callTool and tool, where the value of
\* tool says whether the promise tool() returns resolves or rejects.
isCallableTool(tool) ==
    "callTool" \in DOMAIN tool /\ tool["callTool"] = "function"

\* Whether tool.tool is a function that can be called.
HasToolFn(tool) ==
    "tool" \in DOMAIN tool /\ tool["tool"] \in {"resolves", "rejects"}

\* The static declaration a callable tool's tool() resolves to.
Resolved(tool) == [name |-> tool["name"], functionDeclarations |-> "resolved"]

\* params.config?.tools ?? []
InputTools(params) ==
    IF "config" \in DOMAIN params /\ "tools" \in DOMAIN params["config"]
    THEN params["config"]["tools"]
    ELSE <<>>

\* The conversion loop from index i on, up to its next suspension: "await"
\* at the callable tool of index i, "throw" when calling tool() throws,
\* "done" after the last tool.
RECURSIVE RunTools(_, _, _)
RunTools(tools, i, conv) ==
    IF i > Len(tools) THEN [st |-> "done", i |-> i, conv |-> conv]
    ELSE IF isCallableTool(tools[i])
         THEN IF HasToolFn(tools[i])
              THEN [st |-> "await", i |-> i, conv |-> conv]
              ELSE [st |-> "throw", i |-> i, conv |-> conv]
         ELSE RunTools(tools, i + 1, Append(conv, tools[i]))

\* converters.liveConnectParametersTo{Vertex,Mldev}, then
\* delete clientMessage['config']: the setup envelope of the parameters.
SetupMessage(vx, model, params) ==
    LET clientMessage ==
          [k \in {"setup", "config"} |->
             IF k = "setup"
             THEN [enc |-> IF vx THEN "vertex" ELSE "mldev",
                   model |-> model,
                   hasConfig |-> "config" \in DOMAIN params,
                   config |-> IF "config" \in DOMAIN params
                              THEN params["config"] ELSE EmptyObj]
             ELSE EmptyObj]
    IN  [k \in (DOMAIN clientMessage) \ {"config"} |-> clientMessage[k]]

\* ------------------------------------------------------------------ state
VARIABLES
    vertexai,   \* apiClient.isVertexAI()
    apiKey,     \* apiClient.getApiKey()
    calls,      \* the Live.connect calls, in call order
    conns,      \* the connections webSocketFactory.create returned, in order
    lastOp      \* the last Session method call: its input and its outcome

vars == <<vertexai, apiKey, calls, conns, lastOp>>

NoOp == [op |-> "none", k |-> 0, threw |-> FALSE, err |-> "", before |-> 0]

\* A connection right after webSocketFactory.create(...) and conn.connect().
NewConn(url, callbacks) ==
    [url |-> url, callbacks |-> callbacks, st |-> "connecting",
     connectCalls |-> 1, closeCalls |-> 0,
     opened |-> FALSE,     \* onopenPromise is resolved
     sent |-> <<>>,        \* the frames handed to conn.send, in order
     delivered |-> <<>>,   \* the inbound messages, in delivery order
     pending |-> {},       \* messages suspended at await event.data.text()
     dispatched |-> <<>>,  \* messages handed to the user's onmessage, in order
     failed |-> {},        \* messages whose handling threw
     user |-> <<>>]        \* the user's onopen/onerror/onclose calls, in order

\* A Live.connect call: given is the params object as the caller passed it,
\* params the same object as connect has changed it so far.
NewCall(params, pc, c) ==
    [given |-> params, params |-> params, pc |-> pc, conn |-> c,
     tModel |-> <<>>, model |-> <<>>, i |-> 0, conv |-> <<>>]

\* Live.connect(params) up to its first suspension: await addAuthHeaders on
\* Vertex AI, await onopenPromise otherwise.
LiveConnect(params) ==
    /\ IF vertexai
       THEN /\ calls' = Append(calls, NewCall(params, "addAuthHeaders", 0))
            /\ conns' = conns
       ELSE /\ calls' = Append(calls,
                               NewCall(params, "onopenPromise", Len(conns) + 1))
            /\ conns' = Append(conns, NewConn(ConnectUrl(vertexai, apiKey),
                                              params["callbacks"]))
    /\ UNCHANGED <<vertexai, apiKey, lastOp>>

\* auth.addAuthHeaders settles: connect goes on to create the connection, or
\* rejects.
AddAuthHeadersSettled(k, ok) ==
    /\ calls[k].pc = "addAuthHeaders"
    /\ IF ok
       THEN /\ calls' = [calls EXCEPT ![k].pc = "onopenPromise",
                                      ![k].conn = Len(conns) + 1]
            /\ conns' = Append(conns, NewConn(ConnectUrl(vertexai, apiKey),
                                              calls[k].params["callbacks"]))
       ELSE /\ calls' = [calls EXCEPT ![k].pc = "rejected"]
            /\ conns' = conns
    /\ UNCHANGED <<vertexai, apiKey, lastOp>>

\* The call once the conversion loop has run to r: suspended at the next
\* callable tool, rejected, or returned with params.config.tools assigned.
CallAfterTools(call, params, r) ==
    LET final == IF Len(r.conv) > 0
                 THEN SetKey(params, "config",
                             SetKey(params["config"], "tools", r.conv))
                 ELSE params
    IN  CASE r.st = "await" ->
               [call EXCEPT !.pc = "tool", !.params = params,
                            !.i = r.i, !.conv = r.conv]
          [] r.st = "throw" ->
               [call EXCEPT !.pc = "rejected", !.params = params,
                            !.i = r.i, !.conv = r.conv]
          [] OTHER ->
               [call EXCEPT !.pc = "returned", !.params = final,
                            !.i = r.i, !.conv = r.conv]

\* Mutant of SetupFrames: the setup message is sent whether or not the tool
\* conversion failed.
SetupFrames_Always(call) ==
    <<SetupMessage(vertexai, call.model, call.params)>>

\* The frames the rest of Live.connect hands to conn.send: the setup message
\* when the call returns its Session, none otherwise.
SetupFrames(call) ==
    IF call.pc = "returned"
    THEN <<SetupMessage(vertexai, call.model, call.params)>>
    ELSE <<>>

\* Mutant of OpenAwaited: connect does not wait for the open signal.
OpenAwaited_NoWait(c) == TRUE

\* await onopenPromise lets connect go on: the promise is resolved.
OpenAwaited(c) == conns[c].opened

\* Live.connect resumes after await onopenPromise and runs to its next
\* suspension or to its end; tm is what t.tModel returns for params.model.
ConnectResume(k, tm) ==
    /\ calls[k].pc = "onopenPromise"
    /\ OpenAwaited(calls[k].conn)
    /\ LET params == WithDefaultModalities(vertexai, calls[k].params)
           r == RunTools(InputTools(params), 1, <<>>)
           call == CallAfterTools(
                     [calls[k] EXCEPT !.tModel = tm,
                                      !.model = QualifiedModel(vertexai, tm)],
                     params, r)
       IN  /\ calls' = [calls EXCEPT ![k] = call]
           /\ conns' = [conns EXCEPT ![call.conn].sent = @ \o SetupFrames(call)]
    /\ UNCHANGED <<vertexai, apiKey, lastOp>>

\* The promise of callableTool.tool() settles: the loop goes on, or connect
\* rejects.
ToolSettled(k) ==
    /\ calls[k].pc = "tool"
    /\ LET params == calls[k].params
           tools == InputTools(params)
           tool == tools[calls[k].i]
           r == IF tool["tool"] = "rejects"
                THEN [st |-> "throw", i |-> calls[k].i, conv |-> calls[k].conv]
                ELSE RunTools(tools, calls[k].i + 1,
                              Append(calls[k].conv, Resolved(tool)))
           call == CallAfterTools(calls[k], params, r)
       IN  /\ calls' = [calls EXCEPT ![k] = call]
           /\ conns' = [conns EXCEPT ![call.conn].sent = @ \o SetupFrames(call)]
    /\ UNCHANGED <<vertexai, apiKey, lastOp>>

\* ------------------------------------------------------ transport events
\* Whether the user registered callback name on connection c.
Registered(c, name) == name \in conns[c].callbacks

UserCall(c, name) == IF Registered(c, name) THEN <<name>> ELSE <<>>

\* The transport signals open: onopenAwaitedCallback calls the user's
\* onopen and resolves onopenPromise.
TransportOpen(c) ==
    /\ conns[c].st = "connecting"
    /\ conns' = [conns EXCEPT ![c].st = "open", ![c].opened = TRUE,
                              ![c].user = @ \o UserCall(c, "onopen")]
    /\ UNCHANGED <<vertexai, apiKey, calls, lastOp>>

\* The transport signals an error: the user's onerror, or the no-op.
TransportError(c) ==
    /\ conns[c].st \in {"connecting", "open", "closing"}
    /\ conns' = [conns EXCEPT ![c].st = "errored",
                              ![c].user = @ \o UserCall(c, "onerror")]
    /\ UNCHANGED <<vertexai, apiKey, calls, lastOp>>

\* Mutant of TransportClose: the engine connects again when the transport
\* closes.
TransportClose_Reconnect(c) ==
    /\ conns[c].st \in {"connecting", "open", "closing", "errored"}
    /\ conns' = [conns EXCEPT ![c].st = "closed",
                              ![c].connectCalls = @ + 1,
                              ![c].user = @ \o UserCall(c, "onclose")]
    /\ UNCHANGED <<vertexai, apiKey, calls, lastOp>>

\* The transport signals close: the user's onclose, or the no-op.
TransportClose(c) ==
    /\ conns[c].st \in {"connecting", "open", "closing", "errored"}
    /\ conns' = [conns EXCEPT ![c].st = "closed",
                              ![c].user = @ \o UserCall(c, "onclose")]
    /\ UNCHANGED <<vertexai, apiKey, calls, lastOp>>

\* Mutant of Decoded: a parse failure is caught and the message dropped.
Decoded_CatchAndDrop(conn, m) ==
    IF conn.delivered[m].json = "bad"
    THEN conn
    ELSE [conn EXCEPT !.dispatched = Append(@, m)]

\* handleWebSocketMessage from JSON.parse on, for message m of connection
\* conn: the parse throws, or the user's onmessage is called.
Decoded(conn, m) ==
    IF conn.delivered[m].json = "bad"
    THEN [conn EXCEPT !.failed = @ \cup {m}]
    ELSE [conn EXCEPT !.dispatched = Append(@, m)]

\* The transport delivers a message: handleWebSocketMessage runs up to
\* await event.data.text() for a Blob, and to its end otherwise.
TransportMessage(c, data) ==
    /\ conns[c].st \in {"open", "closing"}
    /\ LET m == Len(conns[c].delivered) + 1
           conn == [conns[c] EXCEPT !.delivered = Append(@, data)]
       IN  conns' = [conns EXCEPT ![c] =
                       IF data.type = "Blob"
                       THEN [conn EXCEPT !.pending = @ \cup {m}]
                       ELSE Decoded(conn, m)]
    /\ UNCHANGED <<vertexai, apiKey, calls, lastOp>>

\* event.data.text() of a pending Blob message resolves (the platform fixes
\* no order among pending reads) and its handler runs to its end.
BlobTextSettled(c, m) ==
    /\ m \in conns[c].pending
    /\ conns' = [conns EXCEPT ![c] =
                   Decoded([conns[c] EXCEPT !.pending = @ \ {m}], m)]
    /\ UNCHANGED <<vertexai, apiKey, calls, lastOp>>

\* -------------------------------------------------------- Session methods
\* Mutant of Send: a method that threw has handed a frame to conn.send all
\* the same.
Send_FrameOnThrow(k, op, arg, r) ==
    /\ calls[k].pc = "returned"
    /\ LET c == calls[k].conn
       IN  /\ lastOp' = [op |-> op, k |-> k, arg |-> arg, threw |-> r.threw,
                         err |-> r.err, before |-> Len(conns[c].sent)]
           /\ conns' = [conns EXCEPT ![c].sent = Append(@, r.msg)]
    /\ UNCHANGED <<vertexai, apiKey, calls>>

\* A send method of the Session of call k: r is what the method computed
\* before conn.send; a method that threw hands no frame to conn.send.
Send(k, op, arg, r) ==
    /\ calls[k].pc = "returned"
    /\ LET c == calls[k].conn
       IN  /\ lastOp' = [op |-> op, k |-> k, arg |-> arg, threw |-> r.threw,
                         err |-> r.err, before |-> Len(conns[c].sent)]
           /\ conns' = [conns EXCEPT ![c].sent =
                          IF r.threw THEN @ ELSE Append(@, r.msg)]
    /\ UNCHANGED <<vertexai, apiKey, calls>>

sendClientContent(k, args) ==
    Send(k, "sendClientContent", args, sendClientContentResult(vertexai, args))

sendRealtimeInput(k, params) ==
    Send(k, "sendRealtimeInput", params, sendRealtimeInputResult(vertexai, params))

sendToolResponse(k, fr) ==
    Send(k, "sendToolResponse", fr, sendToolResponseResult(vertexai, fr))

\* Mutant of close: every Session closes the first connection created.
close_FirstConn(k) ==
    /\ calls[k].pc = "returned"
    /\ lastOp' = [op |-> "close", k |-> k, threw |-> FALSE, err |-> "",
                  before |-> Len(conns[1].sent)]
    /\ conns' = [conns EXCEPT ![1].closeCalls = @ + 1,
                              ![1].st = IF @ \in {"connecting", "open"}
                                        THEN "closing" ELSE @]
    /\ UNCHANGED <<vertexai, apiKey, calls>>

\* Session.close(): conn.close().
close(k) ==
    /\ calls[k].pc = "returned"
    /\ LET c == calls[k].conn
       IN  /\ lastOp' = [op |-> "close", k |-> k, threw |-> FALSE, err |-> "",
                         before |-> Len(conns[c].sent)]
           /\ conns' = [conns EXCEPT ![c].closeCalls = @ + 1,
                                     ![c].st = IF @ \in {"connecting", "open"}
                                               THEN "closing" ELSE @]
    /\ UNCHANGED <<vertexai, apiKey, calls>>

\* ----------------------------------------------------------------- inputs
SeqsUpTo(S, n) == UNION {[1..m -> S] : m \in 0..n}

\* API keys: none, empty, ordinary, and around the prefix "auth_tokens/".
ApiKeys ==
    {NoKey, Key(<<>>), Key(<<"k">>),
     Key(auth_tokens_ \o <<"x">>), Key(auth_tokens_),
     Key(SubSeq(auth_tokens_, 1, 11)), Key(<<"x">> \o auth_tokens_),
     Key(<<"A">> \o Tail(auth_tokens_))}

models_m == <<"m","o","d","e","l","s","/","m">>

\* What t.tModel may return: names around the prefix "publishers/".
NormalizedNames ==
    {publishers_ \o <<"m">>, publishers_, SubSeq(publishers_, 1, 10),
     <<"x">> \o publishers_, models_m, projects_ \o <<"q">>}

ResponseModalities == {"undefined", "null", "[]", "[TEXT]", "[AUDIO]"}

StaticTool == [name |-> "s", functionDeclarations |-> "declared"]
CallableTool == [name |-> "c", callTool |-> "function", tool |-> "resolves"]
RejectingTool == [name |-> "r", callTool |-> "function", tool |-> "rejects"]
ToolOnly == [name |-> "t", tool |-> "resolves"]
CallToolOnly == [name |-> "x", callTool |-> "function"]

Tools == {StaticTool, CallableTool, RejectingTool, ToolOnly, CallToolOnly}

\* The config objects with response modalities from RM and tools from TS,
\* each key present or absent.
Configs(RM, TS) ==
    {[k \in ks |-> IF k = "responseModalities" THEN rm ELSE tools] :
        ks \in SUBSET {"responseModalities", "tools"}, rm \in RM, tools \in TS}

AllCallbacks == {"onopen", "onmessage", "onerror", "onclose"}

\* LiveConnectParameters, with and without config.
ConnectParams(CFG, CB) ==
    {[k \in {"model", "callbacks"} |-> IF k = "model" THEN "model" ELSE cb] :
        cb \in CB}
    \cup
    {[k \in {"model", "callbacks", "config"} |->
         CASE k = "model" -> "model"
           [] k = "callbacks" -> cb
           [] OTHER -> cfg] : cb \in CB, cfg \in CFG}

MessageEvents ==
    [type : {"string", "ArrayBuffer", "Blob"}, json : {"ok", "bad"}]

\* sendClientContent arguments: none, or an object with each key present or
\* absent.
TurnsValues ==
    {Undefined, Null, StringV("Hello"), Obj({"role", "parts"}),
     Arr(<<Obj({"role", "parts"}), Obj({"parts"})>>), Arr(<<>>), Num}

TurnCompleteValues == {Undefined, Null, Bool(TRUE), Bool(FALSE)}

ClientContentArgs ==
    {[given |-> FALSE, obj |-> EmptyObj]}
    \cup
    {[given |-> TRUE,
      obj |-> [k \in ks |-> IF k = "turns" THEN t ELSE tc]] :
        ks \in SUBSET {"turns", "turnComplete"},
        t \in TurnsValues, tc \in TurnCompleteValues}

\* functionResponses values: absent, null, one value, or an array of them.
ResponseElements ==
    {Obj({"id", "name", "response"}), Obj({"name", "response"}),
     Obj({"id", "name"}), Obj({"id", "response"}), Null, StringV("text")}

FunctionResponses ==
    {Undefined} \cup ResponseElements
    \cup {Arr(items) : items \in SeqsUpTo(ResponseElements, MaxResponses)}

RealtimeInputs == {"media", "audio", "unsupported"}

\* ------------------------------------------------------- the protocol
Init ==
    /\ vertexai \in BOOLEAN
    /\ apiKey = Key(<<"k">>)
    /\ calls = <<>>
    /\ conns = <<>>
    /\ lastOp = NoOp

Calls == 1..Len(calls)
Conns == 1..Len(conns)

\* The sum of f[c] over the connections 1..n.
RECURSIVE Total(_, _)
Total(f, n) == IF n = 0 THEN 0 ELSE f[n] + Total(f, n - 1)

\* Inbound messages, frames of the send methods and close calls so far, over
\* all connections.
Delivered == Total([c \in Conns |-> Len(conns[c].delivered)], Len(conns))
UserFrames ==
    Total([c \in Conns |->
             Cardinality({i \in DOMAIN conns[c].sent :
                            ~("setup" \in DOMAIN conns[c].sent[i])})],
          Len(conns))
CloseCalls == Total([c \in Conns |-> conns[c].closeCalls], Len(conns))

\* One Live.connect call, every transport event, every Session method.
SpecParams ==
    ConnectParams({[tools |-> <<CallableTool>>]}, {AllCallbacks})
    \cup ConnectParams({}, {{"onmessage"}})

Next ==
    \/ /\ calls = <<>>
       /\ \E params \in SpecParams : LiveConnect(params)
    \/ \E k \in Calls, ok \in BOOLEAN : AddAuthHeadersSettled(k, ok)
    \/ \E c \in Conns : TransportOpen(c)
    \/ \E k \in Calls : ConnectResume(k, models_m)
    \/ \E k \in Calls : ToolSettled(k)
    \/ /\ Delivered < MaxMsgs
       /\ \E c \in Conns, data \in {[type |-> "string", json |-> "ok"],
                                    [type |-> "Blob", json |-> "ok"]} :
            TransportMessage(c, data)
    \/ \E c \in Conns : \E m \in conns[c].pending : BlobTextSettled(c, m)
    \/ \E c \in Conns : TransportError(c)
    \/ \E c \in Conns : TransportClose(c)
    \/ /\ UserFrames < MaxSends
       /\ \E k \in Calls :
            \/ sendClientContent(k, [given |-> FALSE, obj |-> EmptyObj])
            \/ sendRealtimeInput(k, "media")
            \/ \E fr \in {Undefined, Arr(<<Obj({"id", "name", "response"})>>)} :
                 sendToolResponse(k, fr)
    \/ /\ CloseCalls < MaxCloses
       /\ \E k \in Calls : close(k)

Spec == Init /\ [][Next]_vars

\* Every step that can be taken is eventually taken: the event loop runs a
\* resumed continuation, and the transport delivers what it has.
FairSpec == Spec /\ WF_vars(Next)

\* ------------------------------------------------------ the handshake
\* One Live.connect call over every client key, normalized model name and
\* config.
InitHandshake ==
    /\ vertexai \in BOOLEAN
    /\ apiKey \in ApiKeys
    /\ calls = <<>>
    /\ conns = <<>>
    /\ lastOp = NoOp

NextHandshake ==
    \/ /\ calls = <<>>
       /\ \E params \in ConnectParams(
                          Configs(ResponseModalities, SeqsUpTo(Tools, MaxTools)),
                          {AllCallbacks}) :
            LiveConnect(params)
    \/ \E k \in Calls, ok \in BOOLEAN : AddAuthHeadersSettled(k, ok)
    \/ \E c \in Conns : TransportOpen(c)
    \/ \E k \in Calls, tm \in NormalizedNames : ConnectResume(k, tm)
    \/ \E k \in Calls : ToolSettled(k)
    \/ \E c \in Conns : TransportError(c)
    \/ \E c \in Conns : TransportClose(c)

SpecHandshake == InitHandshake /\ [][NextHandshake]_vars

\* ------------------------------------------------------ the send methods
\* One Session and every argument of its send methods.
NextSend ==
    \/ /\ calls = <<>>
       /\ \E params \in ConnectParams({}, {AllCallbacks}) : LiveConnect(params)
    \/ \E k \in Calls, ok \in BOOLEAN : AddAuthHeadersSettled(k, ok)
    \/ \E c \in Conns : TransportOpen(c)
    \/ \E k \in Calls : ConnectResume(k, models_m)
    \/ /\ UserFrames < MaxFrames
       /\ \E k \in Calls :
            \/ \E args \in ClientContentArgs : sendClientContent(k, args)
            \/ \E params \in RealtimeInputs : sendRealtimeInput(k, params)
            \/ \E fr \in FunctionResponses : sendToolResponse(k, fr)

SpecSend == Init /\ [][NextSend]_vars

\* ---------------------------------------------------- inbound dispatch
\* One connection and every kind of inbound message.
NextInbound ==
    \/ /\ calls = <<>>
       /\ \E params \in ConnectParams({}, {AllCallbacks}) : LiveConnect(params)
    \/ \E k \in Calls, ok \in BOOLEAN : AddAuthHeadersSettled(k, ok)
    \/ \E c \in Conns : TransportOpen(c)
    \/ \E k \in Calls : ConnectResume(k, models_m)
    \/ /\ Delivered < MaxInbound
       /\ \E c \in Conns, data \in MessageEvents : TransportMessage(c, data)
    \/ \E c \in Conns : \E m \in conns[c].pending : BlobTextSettled(c, m)
    \/ \E c \in Conns : TransportError(c)
    \/ \E c \in Conns : TransportClose(c)

SpecInbound == Init /\ [][NextInbound]_vars

\* ------------------------------------------------- GoogleGenAI (node client)
\* Optional strings are NoKey (undefined) or Key(chars). An environment maps
\* each variable name to its raw value, or NoKey when it is not set.
RECURSIVE TrimStart(_)
TrimStart(s) ==
    IF s # <<>> /\ Head(s) = " " THEN TrimStart(Tail(s)) ELSE s

RECURSIVE TrimEnd(_)
TrimEnd(s) ==
    IF s # <<>> /\ s[Len(s)] = " " THEN TrimEnd(SubSeq(s, 1, Len(s) - 1)) ELSE s

\* String.prototype.trim
trim(s) == TrimEnd(TrimStart(s))

\* String.prototype.toLowerCase, on the letters the inputs use.
toLowerCase(s) ==
    [i \in DOMAIN s |->
        CASE s[i] = "T" -> "t"
          [] s[i] = "R" -> "r"
          [] s[i] = "U" -> "u"
          [] s[i] = "E" -> "e"
          [] OTHER -> s[i]]

\* a ?? b and a || b on optional strings.
Coalesce(a, b) == IF a.def THEN a ELSE b
Or(a, b) == IF Truthy(a) THEN a ELSE b

\* process?.env?.[env]?.trim() ?? undefined
getEnv(env, name) ==
    IF env[name].def THEN Key(trim(env[name].s)) ELSE NoKey

stringToBoolean(str) ==
    IF ~str.def THEN FALSE
    ELSE toLowerCase(str.s) = <<"t","r","u","e">>

getBooleanEnv(env, name) == stringToBoolean(getEnv(env, name))

getApiKeyFromEnv(env) ==
    Or(getEnv(env, "GOOGLE_API_KEY"), getEnv(env, "GEMINI_API_KEY"))

getBaseApiUrlFromEnv(env) ==
    Or(getEnv(env, "GOOGLE_BASE_API_URL"), getEnv(env, "GEMINI_BASE_API_URL"))

\* Mutant of MutuallyExclusive: an explicit location is not looked at.
MutuallyExclusive_ProjectOnly(options) ==
    Truthy(options.project) /\ Truthy(options.apiKey)

\* (options.project || options.location) && options.apiKey
MutuallyExclusive(options) ==
    (Truthy(options.project) \/ Truthy(options.location))
    /\ Truthy(options.apiKey)

\* The environment variables the constructor reads when it does not throw;
\* GOOGLE_GENAI_USE_VERTEXAI only when options.vertexai is null or undefined.
EnvRead(options) ==
    {"GOOGLE_BASE_API_URL", "GEMINI_BASE_API_URL", "GOOGLE_API_KEY",
     "GEMINI_API_KEY", "GOOGLE_CLOUD_PROJECT", "GOOGLE_CLOUD_LOCATION",
     "GOOGLE_VERTEX_BASE_URL", "GOOGLE_GEMINI_BASE_URL"}
    \cup (IF options.vertexai = "undefined"
          THEN {"GOOGLE_GENAI_USE_VERTEXAI"} ELSE {})

\* What the constructor builds, in order, when it does not throw.
Constructed ==
    <<"NodeAuth", "ApiClient", "Models", "Live", "Batches", "Chats", "Caches",
      "Files", "Operations", "Tokens", "Tunings">>

\* this.apiKey, this.project and this.location after the express-mode block.
ExpressMode(options, envApiKey, envProject, envLocation) ==
    LET apiKey0 == Coalesce(options.apiKey, envApiKey)
        project0 == Coalesce(options.project, envProject)
        location0 == Coalesce(options.location, envLocation)
        apiKey1 == IF options.credentials THEN NoKey ELSE apiKey0
        envPL == Truthy(envProject) \/ Truthy(envLocation)
        optPL == Truthy(options.project) \/ Truthy(options.location)
    IN  IF options.vertexai # "true"
        THEN [apiKey |-> apiKey0, project |-> project0, location |-> location0]
        ELSE IF envPL /\ Truthy(options.apiKey)
        THEN [apiKey |-> apiKey1, project |-> NoKey, location |-> NoKey]
        ELSE IF optPL /\ Truthy(envApiKey)
        THEN [apiKey |-> NoKey, project |-> project0, location |-> location0]
        ELSE IF envPL /\ Truthy(envApiKey)
        THEN [apiKey |-> NoKey, project |-> project0, location |-> location0]
        ELSE [apiKey |-> apiKey1, project |-> project0, location |-> location0]

\* new GoogleGenAI(options) in environment env: whether it threw, what it had
\* read and built by then, and the arguments ApiClient was constructed with.
GoogleGenAI(options, env) ==
    IF MutuallyExclusive(options)
    THEN [threw |-> TRUE,
          err |-> "Project/location and API key are mutually exclusive in the client initializer.",
          envRead |-> {}, constructed |-> <<>>,
          apiClient |-> [vertexai |-> FALSE, apiUrl |-> NoKey, apiKey |-> NoKey,
                         project |-> NoKey, location |-> NoKey]]
    ELSE LET useVertex ==
               IF options.vertexai = "undefined"
               THEN getBooleanEnv(env, "GOOGLE_GENAI_USE_VERTEXAI")
               ELSE options.vertexai = "true"
             envApiBaseUrl == getBaseApiUrlFromEnv(env)
             envApiKey == getApiKeyFromEnv(env)
             envProject == getEnv(env, "GOOGLE_CLOUD_PROJECT")
             envLocation == getEnv(env, "GOOGLE_CLOUD_LOCATION")
             this == ExpressMode(options, envApiKey, envProject, envLocation)
         IN  [threw |-> FALSE, err |-> "",
              envRead |-> EnvRead(options), constructed |-> Constructed,
              apiClient |-> [vertexai |-> useVertex,
                             apiUrl |-> Coalesce(options.apiUrl, envApiBaseUrl),
                             apiKey |-> this.apiKey,
                             project |-> this.project,
                             location |-> this.location]]

\* The constructor call: when it does not throw, ai.live works with the
\* ApiClient just built (ApiClient hands back the vertexai flag and the key
\* it was constructed with).
NewGoogleGenAI(options, env) ==
    /\ lastOp = NoOp
    /\ LET r == GoogleGenAI(options, env)
       IN  /\ lastOp' = [op |-> "GoogleGenAI", k |-> 0, threw |-> r.threw,
                         err |-> r.err, before |-> 0, options |-> options,
                         env |-> env, envRead |-> r.envRead,
                         constructed |-> r.constructed,
                         apiClient |-> r.apiClient]
           /\ vertexai' = r.apiClient.vertexai
           /\ apiKey' = r.apiClient.apiKey
    /\ UNCHANGED <<calls, conns>>

\* Options: each string absent, empty or set; vertexai absent, true or false;
\* googleAuthOptions.credentials given or not.
OptionValues ==
    [apiKey : {NoKey, Key(<<>>), Key(<<"k">>)},
     project : {NoKey, Key(<<>>), Key(<<"p">>)},
     location : {NoKey, Key(<<"l">>)},
     apiUrl : {NoKey, Key(<<"u">>)},
     vertexai : {"undefined", "true", "false"},
     credentials : BOOLEAN]

\* Environments: each variable unset or set, some to blank or padded values.
EnvValues ==
    [GOOGLE_API_KEY : {NoKey, Key(<<" ">>), Key(<<"g">>)},
     GEMINI_API_KEY : {NoKey, Key(<<"e">>)},
     GOOGLE_CLOUD_PROJECT : {NoKey, Key(<<" ","q"," ">>)},
     GOOGLE_CLOUD_LOCATION : {NoKey, Key(<<"m">>)},
     GOOGLE_GENAI_USE_VERTEXAI :
         {NoKey, Key(<<"t","r","u","e">>), Key(<<"T","R","U","E"," ">>),
          Key(<<"f","a","l","s","e">>), Key(<<"1">>)},
     GOOGLE_BASE_API_URL : {NoKey, Key(<<"b">>)},
     GEMINI_BASE_API_URL : {NoKey}]

\* One client construction, then one Live.connect on the client's ai.live.
InitClient ==
    /\ vertexai = FALSE
    /\ apiKey = NoKey
    /\ calls = <<>>
    /\ conns = <<>>
    /\ lastOp = NoOp

NextClient ==
    \/ /\ lastOp = NoOp
       /\ \E options \in OptionValues, env \in EnvValues :
            NewGoogleGenAI(options, env)
    \/ /\ lastOp.op = "GoogleGenAI" /\ ~lastOp.threw
       /\ "Live" \in {lastOp.constructed[i] : i \in DOMAIN lastOp.constructed}
       /\ calls = <<>>
       /\ \E params \in ConnectParams({}, {AllCallbacks}) : LiveConnect(params)
    \/ \E k \in Calls, ok \in BOOLEAN : AddAuthHeadersSettled(k, ok)

SpecClient == InitClient /\ [][NextClient]_vars

\* ------------------------------------------------------ several sessions
\* Several Live.connect calls on one client, their connections' events, and
\* sends and closes on each Session.
NextSessions ==
    \/ /\ Len(calls) < MaxCalls
       /\ \E params \in ConnectParams({}, {AllCallbacks}) : LiveConnect(params)
    \/ \E k \in Calls, ok \in BOOLEAN : AddAuthHeadersSettled(k, ok)
    \/ \E c \in Conns : TransportOpen(c)
    \/ \E k \in Calls : ConnectResume(k, models_m)
    \/ \E c \in Conns : TransportClose(c)
    \/ /\ UserFrames < MaxSends
       /\ \E k \in Calls :
            \/ sendRealtimeInput(k, "media")
            \/ sendToolResponse(k, Undefined)
    \/ /\ CloseCalls < MaxCloses
       /\ \E k \in Calls : close(k)

SpecSessions == Init /\ [][NextSessions]_vars

\* ================================================================= claims
\* The connection and the frames of the Session the last method was called on.
LastConn == conns[calls[lastOp.k].conn]
LastSentNothing == Len(LastConn.sent) = lastOp.before
LastSentOne == Len(LastConn.sent) = lastOp.before + 1
LastFrame == LastConn.sent[Len(LastConn.sent)]

\* C1: on every connection the first frame handed to send is the setup
\* message and no later frame is one; a frame is handed to send only after
\* the transport signalled open; and connect has returned its Session only
\* when the setup message has been sent, so that no frame of a send method
\* comes before it.
C1_SetupFirst ==
    /\ \A c \in Conns :
         /\ conns[c].sent # <<>> => conns[c].opened
         /\ \A i \in DOMAIN conns[c].sent :
              ("setup" \in DOMAIN conns[c].sent[i]) <=> (i = 1)
    /\ \A k \in Calls :
         /\ calls[k].pc = "returned" =>
              /\ conns[calls[k].conn].sent # <<>>
              /\ "setup" \in DOMAIN conns[calls[k].conn].sent[1]
         /\ (calls[k].pc # "returned" /\ calls[k].conn # 0) =>
              conns[calls[k].conn].sent = <<>>

\* C1 witness: a Session has sent a frame of a send method after the setup
\* message.
C1_Witness ==
    \E c \in Conns :
        /\ Len(conns[c].sent) >= 2
        /\ "setup" \in DOMAIN conns[c].sent[1]
        /\ "clientContent" \in DOMAIN conns[c].sent[2]

\* C2: the user's onmessage is called for the messages of a connection in
\* the order the transport delivered them.
C2_DispatchInDeliveryOrder ==
    \A c \in Conns :
        \A i, j \in DOMAIN conns[c].dispatched :
            i < j => conns[c].dispatched[i] < conns[c].dispatched[j]

\* C3: when the transport signals error or close before it ever signalled
\* open, the connect call waiting for open is eventually rejected.
C3_EarlyFailureRejects ==
    (/\ Len(calls) = 1
     /\ calls[1].pc = "onopenPromise"
     /\ ~conns[calls[1].conn].opened
     /\ conns[calls[1].conn].st \in {"errored", "closed"})
    ~> (Len(calls) = 1 /\ calls[1].pc = "rejected")

\* C4: sendToolResponse with functionResponses null, undefined or an empty
\* array raises an error and hands no frame to conn.send.
C4_EmptyToolResponseFails ==
    (/\ lastOp.op = "sendToolResponse"
     /\ \/ lastOp.arg.kind \in {"undefined", "null"}
        \/ (lastOp.arg.kind = "array" /\ Len(lastOp.arg.items) = 0))
    => (lastOp.threw /\ LastSentNothing)

\* C4 witness: sendToolResponse was called with an empty array.
C4_Witness ==
    /\ lastOp.op = "sendToolResponse"
    /\ lastOp.arg.kind = "array"
    /\ Len(lastOp.arg.items) = 0
    /\ lastOp.threw

\* A non-empty array of objects that each carry name and response.
NamedResponses(v) ==
    /\ v.kind = "array"
    /\ Len(v.items) > 0
    /\ \A i \in DOMAIN v.items :
         /\ v.items[i].kind = "object"
         /\ {"name", "response"} \subseteq v.items[i].keys

SomeLacksId(v) == \E i \in DOMAIN v.items : ~("id" \in v.items[i].keys)

\* C5: for a non-empty array of function responses that each carry name and
\* response: on the direct API, if any element lacks id the call fails with
\* the id-required error and sends no frame; on Vertex AI the call succeeds
\* and sends exactly one toolResponse frame.
C5_IdRequiredOnDirectApiOnly ==
    (lastOp.op = "sendToolResponse" /\ NamedResponses(lastOp.arg)) =>
        IF vertexai
        THEN /\ ~lastOp.threw
             /\ LastSentOne
             /\ "toolResponse" \in DOMAIN LastFrame
        ELSE SomeLacksId(lastOp.arg) =>
                 /\ lastOp.threw
                 /\ lastOp.err = FUNCTION_RESPONSE_REQUIRES_ID
                 /\ LastSentNothing

\* C5 witness: on the direct API, the second of two responses lacks id and
\* the call failed with the id-required error.
C5_Witness ==
    /\ ~vertexai
    /\ lastOp.op = "sendToolResponse"
    /\ NamedResponses(lastOp.arg)
    /\ Len(lastOp.arg.items) = 2
    /\ "id" \in lastOp.arg.items[1].keys
    /\ ~("id" \in lastOp.arg.items[2].keys)
    /\ lastOp.err = FUNCTION_RESPONSE_REQUIRES_ID

\* The caller of sendClientContent supplied no turnComplete value: no
\* argument, no such key, or the key set to undefined.
NoTurnComplete(args) ==
    \/ ~args.given
    \/ GetV(args.obj, "turnComplete").kind = "undefined"

\* C6: when the caller supplies no turnComplete value, the frame sent
\* carries clientContent.turnComplete = true; with no argument it is
\* exactly {clientContent:{turnComplete:true}}.
C6_TurnCompleteDefaultsToTrue ==
    (/\ lastOp.op = "sendClientContent"
     /\ ~lastOp.threw
     /\ NoTurnComplete(lastOp.arg))
    => /\ LastSentOne
       /\ "turnComplete" \in DOMAIN LastFrame["clientContent"]
       /\ LastFrame["clientContent"]["turnComplete"].kind = "boolean"
       /\ LastFrame["clientContent"]["turnComplete"].v
       /\ ~lastOp.arg.given => DOMAIN LastFrame["clientContent"] = {"turnComplete"}

\* C7: the clientContent frame has a turns key exactly when the caller
\* supplied turns that are neither null nor undefined; a supplied
\* turnComplete value (true, false, null) is sent unchanged; and
\* sendClientContent({turnComplete:false}) sends
\* {clientContent:{turnComplete:false}}.
C7_TurnsKeyIffSupplied ==
    (lastOp.op = "sendClientContent" /\ ~lastOp.threw) =>
        LET cc == LastFrame["clientContent"]
            obj == IF lastOp.arg.given THEN lastOp.arg.obj ELSE EmptyObj
            tc == GetV(obj, "turnComplete")
        IN  /\ LastSentOne
            /\ DOMAIN LastFrame = {"clientContent"}
            /\ ("turns" \in DOMAIN cc) <=>
                   ~(GetV(obj, "turns").kind \in {"null", "undefined"})
            /\ tc.kind # "undefined" =>
                   /\ "turnComplete" \in DOMAIN cc
                   /\ cc["turnComplete"].kind = tc.kind
                   /\ tc.kind = "boolean" => cc["turnComplete"].v = tc.v
            /\ (DOMAIN obj = {"turnComplete"} /\ tc.kind = "boolean" /\ ~tc.v) =>
                   /\ DOMAIN cc = {"turnComplete"}
                   /\ ~cc["turnComplete"].v

\* C7 witness: sendClientContent({turnComplete:false}) has sent its frame.
C7_Witness ==
    /\ lastOp.op = "sendClientContent"
    /\ ~lastOp.threw
    /\ lastOp.arg.given
    /\ DOMAIN lastOp.arg.obj = {"turnComplete"}
    /\ lastOp.arg.obj["turnComplete"].kind = "boolean"
    /\ ~lastOp.arg.obj["turnComplete"].v
    /\ DOMAIN LastFrame["clientContent"] = {"turnComplete"}

\* The characters of "auth_tokens/" lead the string s.
LeadsWithAuthTokens(s) ==
    /\ Len(s) >= 12
    /\ <<s[1], s[2], s[3], s[4], s[5], s[6], s[7], s[8], s[9], s[10], s[11], s[12]>>
         = <<"a","u","t","h","_","t","o","k","e","n","s","/">>

\* C8: the handshake URL. Direct API: a key that starts with "auth_tokens/"
\* selects method BidiGenerateContentConstrained and parameter access_token,
\* every other non-empty key BidiGenerateContent and key, and no key gives
\* the bare base URL. Vertex AI: always the LlmBidiService URL, without a
\* key parameter.
C8_UrlSelection ==
    \A c \in Conns :
        LET url == conns[c].url
            direct(method, keyName) ==
                <<"wss://host", "/ws/google.ai.generativelanguage.", "v1beta",
                  ".GenerativeService.", method, "?", keyName, "=">> \o apiKey.s
        IN  IF vertexai
            THEN url = <<"wss://host", "/ws/google.cloud.aiplatform.", "v1beta",
                         ".LlmBidiService/BidiGenerateContent">>
            ELSE /\ ~apiKey.def => url = <<"wss://host">>
                 /\ (apiKey.def /\ LeadsWithAuthTokens(apiKey.s)) =>
                        url = direct("BidiGenerateContentConstrained", "access_token")
                 /\ (apiKey.def /\ Len(apiKey.s) > 0
                                /\ ~LeadsWithAuthTokens(apiKey.s)) =>
                        url = direct("BidiGenerateContent", "key")

\* C8 witness: a direct-API connection whose key is "auth_tokens/x".
C8_Witness ==
    /\ ~vertexai
    /\ apiKey.s = <<"a","u","t","h","_","t","o","k","e","n","s","/","x">>
    /\ \E c \in Conns :
         /\ conns[c].url[5] = "BidiGenerateContentConstrained"
         /\ conns[c].url[7] = "access_token"

\* The characters of "publishers/" lead the string s.
LeadsWithPublishers(s) ==
    /\ Len(s) >= 11
    /\ <<s[1], s[2], s[3], s[4], s[5], s[6], s[7], s[8], s[9], s[10], s[11]>>
         = <<"p","u","b","l","i","s","h","e","r","s","/">>

\* C9: on Vertex AI a normalized model name that starts with "publishers/"
\* is sent in the setup message as "projects/p/locations/l/" followed by the
\* name; every other name, and every name on the direct API, is sent as it
\* is.
C9_ModelQualification ==
    \A k \in Calls :
        calls[k].pc = "returned" =>
            LET sent == conns[calls[k].conn].sent[1]["setup"].model
                tm == calls[k].tModel
            IN  IF vertexai /\ LeadsWithPublishers(tm)
                THEN sent = <<"p","r","o","j","e","c","t","s","/","p","/",
                              "l","o","c","a","t","i","o","n","s","/","l","/">>
                            \o tm
                ELSE sent = tm

\* C9 witness: Vertex AI has sent the name "publishers/m" qualified.
C9_Witness ==
    \E k \in Calls :
        /\ vertexai
        /\ calls[k].pc = "returned"
        /\ calls[k].tModel = <<"p","u","b","l","i","s","h","e","r","s","/","m">>
        /\ Len(conns[calls[k].conn].sent[1]["setup"].model) = 35

\* What the caller gave as config.responseModalities: "undefined" when the
\* config or the key is absent.
GivenModalities(k) ==
    IF "config" \in DOMAIN calls[k].given
    THEN Get(calls[k].given["config"], "responseModalities")
    ELSE "undefined"

\* C10: the config the setup message is built from. On Vertex AI it has
\* responseModalities = [AUDIO] when the caller gave none (no config, or a
\* config without responseModalities); a value the caller gave is never
\* overwritten; on the direct API no default is injected.
C10_DefaultModality ==
    \A k \in Calls :
        calls[k].pc = "returned" =>
            LET setup == conns[calls[k].conn].sent[1]["setup"]
                used == Get(setup.config, "responseModalities")
            IN  /\ GivenModalities(k) # "undefined" => used = GivenModalities(k)
                /\ (vertexai /\ GivenModalities(k) = "undefined") =>
                       (setup.hasConfig /\ used = "[AUDIO]")
                /\ ~vertexai =>
                       /\ used = GivenModalities(k)
                       /\ setup.hasConfig <=> ("config" \in DOMAIN calls[k].given)
                       /\ setup.hasConfig =>
                            (("responseModalities" \in DOMAIN setup.config) <=>
                             ("responseModalities" \in DOMAIN calls[k].given["config"]))

\* C10 witness: Vertex AI, the caller gave no config, and the setup message
\* was built from a config with responseModalities = [AUDIO].
C10_Witness ==
    \E k \in Calls :
        /\ vertexai
        /\ calls[k].pc = "returned"
        /\ ~("config" \in DOMAIN calls[k].given)
        /\ conns[calls[k].conn].sent[1]["setup"].config["responseModalities"]
             = "[AUDIO]"

\* The tools the caller configured, and the tools of the config the setup
\* message of call k was built from.
GivenTools(k) == InputTools(calls[k].given)
SetupTools(k) ==
    InputTools([config |-> conns[calls[k].conn].sent[1]["setup"].config])

\* C11: when connect has returned, the tool list the setup message was built
\* from has the length of the configured list, and at each index holds the
\* declaration tool() resolved to when the configured tool exposes tool(),
\* and the configured tool itself otherwise.
C11_ToolMaterialization ==
    \A k \in Calls :
        calls[k].pc = "returned" =>
            /\ Len(SetupTools(k)) = Len(GivenTools(k))
            /\ \A i \in 1..Len(GivenTools(k)) :
                 SetupTools(k)[i] = IF HasToolFn(GivenTools(k)[i])
                                    THEN Resolved(GivenTools(k)[i])
                                    ELSE GivenTools(k)[i]

\* Whether some configured tool of call k makes the conversion loop fail:
\* isCallableTool holds and tool() is missing or its promise rejects.
SomeToolFails(k) ==
    \E i \in 1..Len(GivenTools(k)) :
        /\ isCallableTool(GivenTools(k)[i])
        /\ ~(HasToolFn(GivenTools(k)[i]) /\ GivenTools(k)[i]["tool"] = "resolves")

\* C12: a connect whose tool conversion fails never returns a Session and
\* never sends the setup message; a rejected connect has sent nothing on its
\* connection; and a connect rejected by addAuthHeaders (Vertex AI only) has
\* created no connection.
C12_FailedHandshakeNoSession ==
    \A k \in Calls :
        /\ SomeToolFails(k) =>
             /\ calls[k].pc # "returned"
             /\ calls[k].conn # 0 => conns[calls[k].conn].sent = <<>>
        /\ calls[k].pc = "rejected" =>
             IF calls[k].conn = 0
             THEN vertexai /\ conns = <<>>
             ELSE /\ SomeToolFails(k)
                  /\ conns[calls[k].conn].sent = <<>>

\* C12 witness: connect was rejected because the promise of a tool's tool()
\* rejected, after the transport had opened.
C12_Witness ==
    \E k \in Calls :
        /\ calls[k].pc = "rejected"
        /\ calls[k].conn # 0
        /\ conns[calls[k].conn].opened
        /\ GivenTools(k)[calls[k].i] = RejectingTool

\* The constructor call the claims about GoogleGenAI look at.
Constructing == lastOp.op = "GoogleGenAI"

\* C13: when the constructor does not throw, each of apiKey, project,
\* location and apiUrl the caller passed (a non-empty string) is the value
\* ApiClient is constructed with, and so is a passed vertexai flag, whatever
\* the other options and the environment are.
C13_ExplicitPrecedence ==
    (Constructing /\ ~lastOp.threw) =>
        /\ \A f \in {"apiKey", "project", "location", "apiUrl"} :
             Truthy(lastOp.options[f]) =>
                 lastOp.apiClient[f] = lastOp.options[f]
        /\ lastOp.options.vertexai # "undefined" =>
             lastOp.apiClient.vertexai = (lastOp.options.vertexai = "true")

\* No key, project or location passed, and the environment holds a project,
\* a location and an API key.
OnlyInEnvironment ==
    /\ Constructing
    /\ ~lastOp.options.apiKey.def
    /\ ~lastOp.options.project.def
    /\ ~lastOp.options.location.def
    /\ Truthy(getEnv(lastOp.env, "GOOGLE_CLOUD_PROJECT"))
    /\ Truthy(getEnv(lastOp.env, "GOOGLE_CLOUD_LOCATION"))
    /\ Truthy(getApiKeyFromEnv(lastOp.env))

\* C14: with project, location and API key only in the environment, a client
\* in Vertex AI mode (by the vertexai option or by GOOGLE_GENAI_USE_VERTEXAI)
\* constructs ApiClient with the environment's project and location and with
\* no API key.
C14_EnvironmentProjectWins ==
    (OnlyInEnvironment /\ ~lastOp.threw /\ lastOp.apiClient.vertexai) =>
        /\ lastOp.apiClient.project = getEnv(lastOp.env, "GOOGLE_CLOUD_PROJECT")
        /\ lastOp.apiClient.location = getEnv(lastOp.env, "GOOGLE_CLOUD_LOCATION")
        /\ lastOp.apiClient.apiKey = NoKey

\* C15 as stated: the constructor throws the mutual-exclusion error exactly
\* when an apiKey is passed together with a project or a location, and then
\* has read no environment variable and constructed nothing.
C15_AsStated ==
    Constructing =>
        /\ lastOp.threw <=>
             (lastOp.options.apiKey.def
              /\ (lastOp.options.project.def \/ lastOp.options.location.def))
        /\ lastOp.threw =>
             (lastOp.envRead = {} /\ lastOp.constructed = <<>>)

\* C15 amended: the constructor throws the mutual-exclusion error exactly
\* when a non-empty apiKey is passed together with a non-empty project or
\* location (an empty string counts as not passed), and then has read no
\* environment variable and constructed nothing: no auth provider, no
\* ApiClient, no resource namespace, so no Live to connect with.
C15_MutuallyExclusiveFailsFast ==
    Constructing =>
        /\ lastOp.threw <=>
             (Truthy(lastOp.options.apiKey)
              /\ (Truthy(lastOp.options.project)
                  \/ Truthy(lastOp.options.location)))
        /\ lastOp.threw =>
             /\ lastOp.err = "Project/location and API key are mutually exclusive in the client initializer."
             /\ lastOp.envRead = {}
             /\ lastOp.constructed = <<>>
             /\ calls = <<>>
        /\ ~lastOp.threw =>
             /\ lastOp.constructed = Constructed
             /\ lastOp.envRead = EnvRead(lastOp.options)

\* C15 witness: the constructor threw for an apiKey passed with a location
\* and no project.
C15_Witness ==
    /\ Constructing
    /\ lastOp.threw
    /\ lastOp.options.apiKey = Key(<<"k">>)
    /\ lastOp.options.location = Key(<<"l">>)
    /\ ~lastOp.options.project.def

SendOps == {"sendClientContent", "sendRealtimeInput", "sendToolResponse"}

\* This step is a call of a send method (a repeated call that throws the
\* same error again changes nothing and is no step).
SendStep ==
    /\ lastOp'.op \in SendOps
    /\ (lastOp.op # lastOp'.op \/ lastOp' # lastOp)

\* C16: frames are only ever appended to what a connection was handed, one
\* per step; a send method's call that throws changes no connection, and one
\* that returns appends exactly one frame (a message object, serialized as
\* text) to its own connection and touches nothing else, whatever inbound
\* messages are delivered, pending or dispatched.
C16_SendsAreSynchronous ==
    [][/\ \A c \in Conns :
            /\ Len(conns'[c].sent) \in {Len(conns[c].sent), Len(conns[c].sent) + 1}
            /\ SubSeq(conns'[c].sent, 1, Len(conns[c].sent)) = conns[c].sent
       /\ SendStep =>
            LET c == calls[lastOp'.k].conn
            IN  /\ calls[lastOp'.k].pc = "returned"
                /\ calls' = calls
                /\ lastOp'.before = Len(conns[c].sent)
                /\ IF lastOp'.threw
                   THEN conns' = conns
                   ELSE /\ Len(conns'[c].sent) = Len(conns[c].sent) + 1
                        /\ DOMAIN conns'[c].sent[Len(conns'[c].sent)]
                             \in {{"clientContent"}, {"realtimeInput"},
                                  {"toolResponse"}}
                        /\ conns' = [conns EXCEPT ![c].sent = conns'[c].sent]
      ]_vars

\* C16 witness: a send method returned having handed its one frame to a
\* connection on which an inbound message is still being read, after an
\* earlier frame of a send method.
C16_Witness ==
    /\ lastOp.op \in SendOps
    /\ ~lastOp.threw
    /\ LastSentOne
    /\ lastOp.before = 2
    /\ LastConn.pending # {}

\* C17: a Live.connect call is suspended nowhere but at the wait for the
\* open signal, and once its connection has signalled open, no transport
\* event (message, error, close) comes before the setup message is sent.
C17_SuspendsOnceAtOpen ==
    \A k \in Calls :
        /\ calls[k].pc \in {"onopenPromise", "returned", "rejected"}
        /\ (calls[k].conn # 0 /\ calls[k].pc # "rejected") =>
             LET conn == conns[calls[k].conn]
             IN  (conn.opened /\ conn.sent = <<>>) =>
                     (conn.st = "open" /\ conn.delivered = <<>>)

\* C18: a sendToolResponse call that returns has sent a frame whose
\* toolResponse.functionResponses is the given array, element by element in
\* the same order, or the one-element sequence of the given single response.
C18_ToolResponseNormalized ==
    (lastOp.op = "sendToolResponse" /\ ~lastOp.threw) =>
        /\ LastSentOne
        /\ DOMAIN LastFrame = {"toolResponse"}
        /\ DOMAIN LastFrame["toolResponse"] = {"functionResponses"}
        /\ LastFrame["toolResponse"]["functionResponses"] =
             IF lastOp.arg.kind = "array" THEN lastOp.arg.items
                                          ELSE <<lastOp.arg>>

\* C18 witness: Vertex AI sent an array of two different responses, and a
\* frame holding them followed.
C18_Witness ==
    /\ lastOp.op = "sendToolResponse"
    /\ ~lastOp.threw
    /\ lastOp.arg = Arr(<<Obj({"name", "response"}),
                          Obj({"id", "name", "response"})>>)
    /\ LastSentOne
    /\ Len(LastFrame["toolResponse"]["functionResponses"]) = 2

\* The calls that have created their connection.
Connected(cs) == {k \in 1..Len(cs) : cs[k].conn # 0}

\* C19: in every step, there is one connection per Live.connect call that
\* got as far as creating one, connect was called once on it and its URL
\* stays; a connection is handed a frame only as the setup message of its
\* connect call returning, or as the one frame of a send method that
\* returned; and a transport error or close changes nothing but the
\* connection's state and calls the user's onerror or onclose when it is
\* registered: no frame, no new connection, no new call.
C19_NeverReconnects ==
    [][/\ Len(conns') = Cardinality(Connected(calls'))
       /\ \A k \in Connected(calls) : calls'[k].conn = calls[k].conn
       /\ \A c \in Conns :
            /\ conns'[c].connectCalls = 1
            /\ conns'[c].url = conns[c].url
            /\ conns'[c].sent # conns[c].sent =>
                 \/ /\ conns[c].sent = <<>>
                    /\ Len(conns'[c].sent) = 1
                    /\ "setup" \in DOMAIN conns'[c].sent[1]
                    /\ \E k \in Calls : /\ calls[k].conn = c
                                        /\ calls[k].pc # "returned"
                                        /\ calls'[k].pc = "returned"
                 \/ /\ SendStep
                    /\ ~lastOp'.threw
                    /\ calls[lastOp'.k].conn = c
                    /\ Len(conns'[c].sent) = Len(conns[c].sent) + 1
            /\ (conns'[c].st # conns[c].st /\ conns'[c].st \in {"errored", "closed"}) =>
                 LET name == IF conns'[c].st = "errored" THEN "onerror"
                                                         ELSE "onclose"
                 IN  /\ calls' = calls
                     /\ lastOp' = lastOp
                     /\ conns' = [conns EXCEPT
                                    ![c].st = conns'[c].st,
                                    ![c].user = IF name \in conns[c].callbacks
                                                THEN Append(@, name) ELSE @]
      ]_vars

\* C19 witness: one connection that has carried the setup message and a
\* frame of a send method, then errored and closed, with both events passed
\* to the user's callbacks.
C19_Witness ==
    /\ Len(conns) = 1
    /\ conns[1].st = "closed"
    /\ conns[1].connectCalls = 1
    /\ Len(conns[1].sent) = 2
    /\ \E i, j \in DOMAIN conns[1].user :
         i < j /\ conns[1].user[i] = "onerror" /\ conns[1].user[j] = "onclose"

\* C20: close is invoked at most once on each connection, whatever
\* Session.close calls and transport events come.
C20_ClosedOnce ==
    \A c \in Conns : conns[c].closeCalls <= 1

\* C21: the connections of different Live.connect calls are different (each
\* call's is the one created in that call), a returned Session's connection
\* carries that call's setup message, and a step in which close or a send
\* method is called on a Session invokes close or send on that Session's
\* connection only: every other connection is left exactly as it was.
C21_SessionsIsolated ==
    [][/\ \A k1, k2 \in Connected(calls') :
            k1 # k2 => calls'[k1].conn # calls'[k2].conn
       /\ \A k \in Connected(calls') :
            (k \notin Connected(calls)) => calls'[k].conn = Len(conns) + 1
       /\ \A c \in Conns :
            conns'[c].closeCalls # conns[c].closeCalls =>
                /\ lastOp'.op = "close"
                /\ calls[lastOp'.k].pc = "returned"
                /\ calls[lastOp'.k].conn = c
                /\ conns'[c].closeCalls = conns[c].closeCalls + 1
                /\ \A d \in Conns \ {c} : conns'[d] = conns[d]
       /\ SendStep =>
            /\ calls[lastOp'.k].pc = "returned"
            /\ \A d \in Conns \ {calls[lastOp'.k].conn} : conns'[d] = conns[d]
            /\ ~lastOp'.threw =>
                 Len(conns'[calls[lastOp'.k].conn].sent)
                   = Len(conns[calls[lastOp'.k].conn].sent) + 1
      ]_vars

\* C21 witness: two Sessions on two connections; one has been closed and has
\* sent only its setup message, the other has sent a frame of a send method
\* and has not been closed.
C21_Witness ==
    \E k1, k2 \in Calls :
        /\ calls[k1].pc = "returned"
        /\ calls[k2].pc = "returned"
        /\ calls[k1].conn # calls[k2].conn
        /\ conns[calls[k1].conn].closeCalls = 1
        /\ Len(conns[calls[k1].conn].sent) = 1
        /\ conns[calls[k2].conn].closeCalls = 0
        /\ conns[calls[k2].conn].st = "open"
        /\ Len(conns[calls[k2].conn].sent) = 2

\* How many times the user's onmessage was called for message m of conn.
Dispatches(conn, m) ==
    Cardinality({i \in DOMAIN conn.dispatched : conn.dispatched[i] = m})

\* C22: on every connection, a delivered message whose handler has run to
\* its end has, when its payload is not valid JSON, failed with the parse
\* error escaping the handler and without a call of the user's onmessage,
\* and, when it is valid, been handed to onmessage exactly once, whether or
\* not malformed messages came before it; a message still being read has
\* done neither.
C22_BadJsonEscapes ==
    \A c \in Conns :
        \A m \in DOMAIN conns[c].delivered :
            IF m \in conns[c].pending
            THEN m \notin conns[c].failed /\ Dispatches(conns[c], m) = 0
            ELSE IF conns[c].delivered[m].json = "bad"
            THEN m \in conns[c].failed /\ Dispatches(conns[c], m) = 0
            ELSE m \notin conns[c].failed /\ Dispatches(conns[c], m) = 1

\* C22 witness: the first message of an open connection was malformed and
\* failed, and two well-formed messages delivered after it were dispatched.
C22_Witness ==
    \E c \in Conns :
        /\ conns[c].st = "open"
        /\ Len(conns[c].delivered) = 3
        /\ conns[c].delivered[1].json = "bad"
        /\ conns[c].failed = {1}
        /\ conns[c].dispatched = <<2, 3>>

\* C23: when Live.connect has rejected after its connection signalled open,
\* close has been invoked on that connection (or the transport has closed it).
C23_FailedHandshakeClosesConnection ==
    \A k \in Calls :
        (calls[k].pc = "rejected" /\ calls[k].conn # 0
         /\ conns[calls[k].conn].opened) =>
            \/ conns[calls[k].conn].closeCalls >= 1
            \/ conns[calls[k].conn].st \in {"closing", "closed"}

====
